---- MODULE Spec2Model ----
(***************************************************************************)
(* Booking Viewer (WebXn): the aggregation engine of the six copies of the *)
(* Streamlit application kept in the repository (app.py and the five       *)
(* copies concatenated in unnamed/part_000).                               *)
(*                                                                         *)
(* A table (pandas DataFrame) is a sequence of rows; a row is a record of  *)
(* the seven canonical columns.  A cell is a string; the missing value     *)
(* (NaN / None, which read_csv produces for an empty cell) is the string   *)
(* NaN below.                                                              *)
(***************************************************************************)
EXTENDS Integers, Sequences, FiniteSets, TLC

VARIABLES variant, table, op, out, store

vars == <<variant, table, op, out, store>>

\* SHARED_FOLDER right after os.makedirs: no shared file.  store maps the
\* share codes that have a file to the text of that file.
EmptyStore == [c \in {} |-> <<>>]

(***************************************************************************)
(* Bounds of the model.                                                    *)
(***************************************************************************)
\* Longest table handed to the Daily Aggregator.
MaxRows == 3

\* Longest table handed to the Grass Condenser.
MaxGrassRows == 4

\* Longest table that is styled.
MaxStyledRows == 2

\* Longest table handed to the Weekly Grid Builder.
MaxGridRows == 3

\* Longest raw table handed to the Row Normalizer.
MaxRawRows == 3

\* Longest table handed to the three condensers.
MaxCondenseRows == 3

\* Longest normalized table of a run.
MaxRunRows == 2

\* Most files in the shared folder.
MaxShared == 2

(***************************************************************************)
(* The copies of the program.  "app" is src/app.py; "p1" .. "p5" are the   *)
(* five copies in src/unnamed/part_000, in file order.                     *)
(***************************************************************************)
Variants == {"app", "p1", "p2", "p3", "p4", "p5"}

(***************************************************************************)
(* Strings.                                                                *)
(***************************************************************************)
NaN == "NaN"

IsNa(x) == x = NaN

\* The ASCII characters of the cells in code-point order, in three runs: 32..33,
\* 35..91 and 97..122.
AsciiLow == " !"
AsciiMid == "#$%&'()*+,-./0123456789:;<=>?@ABCDEFGHIJKLMNOPQRSTUVWXYZ["
AsciiHigh == "abcdefghijklmnopqrstuvwxyz"

CharAt(s, i) == SubSeq(s, i, i)

IndexIn(s, c) == CHOOSE i \in 1..Len(s) : CharAt(s, i) = c

HasChar(s, c) == \E i \in 1..Len(s) : CharAt(s, i) = c

\* ord(c) of a one-character string.
CharCode(c) ==
  IF HasChar(AsciiLow, c) THEN 31 + IndexIn(AsciiLow, c)
  ELSE IF HasChar(AsciiMid, c) THEN 34 + IndexIn(AsciiMid, c)
  ELSE 96 + IndexIn(AsciiHigh, c)

MinOf(S) == CHOOSE x \in S : \A y \in S : x <= y

\* str.__lt__ of Python: code-point lexicographic order.
StrLess(a, b) ==
  LET n == IF Len(a) < Len(b) THEN Len(a) ELSE Len(b)
      diff == {i \in 1..n : CharAt(a, i) # CharAt(b, i)}
  IN  IF diff = {} THEN Len(a) < Len(b)
      ELSE LET k == MinOf(diff)
           IN  CharCode(CharAt(a, k)) < CharCode(CharAt(b, k))

\* sorted(S) for a set of strings: ascending sequence.
RECURSIVE SortedStr(_)
SortedStr(S) ==
  IF S = {} THEN <<>>
  ELSE LET m == CHOOSE x \in S : \A y \in S \ {x} : StrLess(x, y)
       IN  <<m>> \o SortedStr(S \ {m})

\* sep.join(seq)
RECURSIVE Join(_, _)
Join(seq, sep) ==
  IF seq = <<>> THEN ""
  ELSE IF Len(seq) = 1 THEN seq[1]
  ELSE seq[1] \o sep \o Join(Tail(seq), sep)

\* needle in s  (Python substring test)
Contains(s, needle) ==
  \E i \in 1..(Len(s) - Len(needle) + 1) : SubSeq(s, i, i + Len(needle) - 1) = needle

(***************************************************************************)
(* Tables.                                                                 *)
(***************************************************************************)
Columns == <<"date", "location", "sublocation", "time", "type", "booker", "details">>

Row(d, l, s, t, y, b, f) ==
  [date |-> d, location |-> l, sublocation |-> s, time |-> t, type |-> y,
   booker |-> b, details |-> f]

Range(seq) == {seq[i] : i \in 1..Len(seq)}

\* df[col].unique() as a set (NaN included).
Unique(df, col) == {df[i][col] : i \in 1..Len(df)}

\* df[df[col] == v]; a comparison with NaN is False.
Where(df, col, v) == SelectSeq(df, LAMBDA r : r[col] = v /\ ~IsNa(r[col]))

\* sorted() over a column's unique values raises TypeError when a missing
\* value (a float) meets a string; a list holding only NaN sorts as it is.
SortRaises(S) == NaN \in S /\ S # {NaN}

RECURSIVE Flatten(_)
Flatten(seqs) == IF seqs = <<>> THEN <<>> ELSE Head(seqs) \o Flatten(Tail(seqs))

(***************************************************************************)
(* groupby.                                                                *)
(***************************************************************************)
\* The values of the key columns cols of row r.
KeyOf(r, cols) == [i \in 1..Len(cols) |-> r[cols[i]]]

\* Lexicographic order on key tuples of equal length (the order of a sorted groupby).
KeyLess(a, b) ==
  LET diff == {i \in 1..Len(a) : a[i] # b[i]}
  IN  diff # {} /\ StrLess(a[MinOf(diff)], b[MinOf(diff)])

RECURSIVE SortedKeys(_)
SortedKeys(S) ==
  IF S = {} THEN <<>>
  ELSE LET m == CHOOSE x \in S : \A y \in S \ {x} : KeyLess(x, y)
       IN  <<m>> \o SortedKeys(S \ {m})

HasNa(key) == \E i \in 1..Len(key) : IsNa(key[i])

\* df.groupby(cols) with the defaults dropna=True, sort=True: the keys of the
\* groups, ascending; a row with a missing value in a key column is in no group.
GroupKeys(df, cols) ==
  SortedKeys({k \in {KeyOf(df[i], cols) : i \in 1..Len(df)} : ~HasNa(k)})

\* The rows of the group of key k, in table order.
GroupRows(df, cols, k) == SelectSeq(df, LAMBDA r : KeyOf(r, cols) = k)

\* The column col of a table, as a sequence (a pandas Series).
Series(df, col) == [i \in 1..Len(df) |-> df[i][col]]

\* x.nunique(): missing values are not counted.
NUnique(x) == Cardinality(Range(x) \ {NaN})

JoinSortedMutRowOrder(x) ==
  IF NaN \in Range(x) THEN [err |-> "TypeError", val |-> ""]
  ELSE [err |-> "", val |-> Join(x, ", ")]

\* ", ".join(sorted(x.unique())): sorted() or join() raises TypeError when x
\* holds a missing value.
JoinSorted(x) ==
  IF NaN \in Range(x) THEN [err |-> "TypeError", val |-> ""]
  ELSE [err |-> "", val |-> Join(SortedStr(Range(x)), ", ")]

(***************************************************************************)
(* Daily Aggregator: aggregate_bookings.                                   *)
(***************************************************************************)
\* expected_sub_count of copy v.
expected_sub_count(v) ==
  LET base == [l \in {"Fives", "3g-1", "3g-2", "Cameron Bank", "East (winter)", "South"} |->
                 CASE l = "Fives" -> 6 [] l = "East (winter)" -> 4 [] l = "South" -> 3
                   [] OTHER -> 2]
      astro == [l \in {"Muga", "Astro 1", "Astro 2"} |-> IF l = "Muga" THEN 3 ELSE 2]
      nets == [l \in {"Cricket Nets", "Track Lanes 1-4"} |-> 4]
  IN  IF v = "app" THEN base
      ELSE IF v = "p2" THEN base @@ astro
      ELSE base @@ astro @@ nets

AggKeyColumns == <<"time", "type", "booker", "details">>

CollapseMutCountRows(x, loc, v) ==
  IF NUnique(x) = 1 THEN [err |-> "", val |-> x[1]]
  ELSE IF loc \in DOMAIN expected_sub_count(v) /\ Len(x) = expected_sub_count(v)[loc]
       THEN [err |-> "", val |-> "ALL"]
  ELSE JoinSorted(x)

CollapseMutRowsFirst(x, loc, v) ==
  IF loc \in DOMAIN expected_sub_count(v) /\ Len(x) = expected_sub_count(v)[loc]
  THEN [err |-> "", val |-> "ALL"]
  ELSE IF NUnique(x) = 1 THEN [err |-> "", val |-> x[1]]
  ELSE JoinSorted(x)

CollapseMutDefaultTwo(x, loc, v) ==
  IF NUnique(x) = 1 THEN [err |-> "", val |-> x[1]]
  ELSE IF NUnique(x) = (IF loc \in DOMAIN expected_sub_count(v) THEN expected_sub_count(v)[loc]
                        ELSE 2)
       THEN [err |-> "", val |-> "ALL"]
  ELSE JoinSorted(x)

CollapseMutAtLeast(x, loc, v) ==
  IF NUnique(x) = 1 THEN [err |-> "", val |-> x[1]]
  ELSE IF loc \in DOMAIN expected_sub_count(v) /\ NUnique(x) >= expected_sub_count(v)[loc]
       THEN [err |-> "", val |-> "ALL"]
  ELSE JoinSorted(x)

\* The lambda aggregate_bookings applies to the sublocation column x of a group
\* at location loc.
CollapseSublocation(x, loc, v) ==
  IF NUnique(x) = 1 THEN [err |-> "", val |-> x[1]]
  ELSE IF loc \in DOMAIN expected_sub_count(v) /\ NUnique(x) = expected_sub_count(v)[loc]
       THEN [err |-> "", val |-> "ALL"]
  ELSE JoinSorted(x)

AggBlockMutPerRow(sub, d, loc, v) ==
  [err |-> "",
   rows |-> [i \in 1..Len(sub) |->
               Row(d, loc, sub[i].sublocation, sub[i].time, sub[i].type, sub[i].booker,
                   sub[i].details)]]

\* One (date, location) block: sub_df.groupby([...]).agg({...}), then the
\* location and date columns set and the columns put in canonical order.
AggBlock(sub, d, loc, v) ==
  LET keys == GroupKeys(sub, AggKeyColumns)
      cell(k) == CollapseSublocation(Series(GroupRows(sub, AggKeyColumns, k), "sublocation"),
                                     loc, v)
  IN  [err |-> IF \E i \in 1..Len(keys) : cell(keys[i]).err # "" THEN "TypeError" ELSE "",
       rows |-> [i \in 1..Len(keys) |->
                   Row(d, loc, cell(keys[i]).val, keys[i][1], keys[i][2], keys[i][3],
                       keys[i][4])]]

\* The blocks of one date, locations ascending.
AggDate(df, d, v) ==
  LET df_date == Where(df, "date", d)
      locs == Unique(df_date, "location")
  IN  IF SortRaises(locs) THEN <<[err |-> "TypeError", rows |-> <<>>]>>
      ELSE LET ls == SortedStr(locs \ {NaN})
           IN  [i \in 1..Len(ls) |-> AggBlock(Where(df_date, "location", ls[i]), d, ls[i], v)]

\* df.columns of the table handed to aggregate_bookings: every caller hands
\* it rows of the normalized table, whose columns are the canonical seven.
df_columns == Columns

\* The columns of the table returned when no (date, location) block was made:
\* the canonical seven, which copy p3 takes from its argument.
EmptyColumns(v) == IF v = "p3" THEN df_columns ELSE Columns

aggregate_bookings_MutDescending(df, v) ==
  LET dates == Unique(df, "date")
      asc == SortedStr(dates \ {NaN})
      ds == [i \in 1..Len(asc) |-> asc[Len(asc) + 1 - i]]
      blocks == Flatten([i \in 1..Len(ds) |-> AggDate(df, ds[i], v)])
  IN  IF SortRaises(dates) \/ \E i \in 1..Len(blocks) : blocks[i].err # ""
      THEN [err |-> "TypeError", rows |-> <<>>, columns |-> <<>>]
      ELSE IF blocks = <<>>
      THEN [err |-> "", rows |-> <<>>, columns |-> EmptyColumns(v)]
      ELSE [err |-> "", rows |-> Flatten([i \in 1..Len(blocks) |-> blocks[i].rows]),
            columns |-> Columns]

aggregate_bookings_MutNoGuard(df, v) ==
  LET dates == Unique(df, "date")
      ds == SortedStr(dates \ {NaN})
      blocks == Flatten([i \in 1..Len(ds) |-> AggDate(df, ds[i], v)])
  IN  IF SortRaises(dates) \/ \E i \in 1..Len(blocks) : blocks[i].err # ""
      THEN [err |-> "TypeError", rows |-> <<>>, columns |-> <<>>]
      ELSE IF blocks = <<>>
      THEN [err |-> "ValueError", rows |-> <<>>, columns |-> <<>>]
      ELSE [err |-> "", rows |-> Flatten([i \in 1..Len(blocks) |-> blocks[i].rows]),
            columns |-> Columns]

\* aggregate_bookings(df) of copy v: the exception raised ("" when none), the
\* rows returned and their columns.  When the loops made no block, the empty
\* table with EmptyColumns is returned instead of pd.concat of nothing.
aggregate_bookings(df, v) ==
  LET dates == Unique(df, "date")
      ds == SortedStr(dates \ {NaN})
      blocks == Flatten([i \in 1..Len(ds) |-> AggDate(df, ds[i], v)])
  IN  IF SortRaises(dates) \/ \E i \in 1..Len(blocks) : blocks[i].err # ""
      THEN [err |-> "TypeError", rows |-> <<>>, columns |-> <<>>]
      ELSE IF blocks = <<>>
      THEN [err |-> "", rows |-> <<>>, columns |-> EmptyColumns(v)]
      ELSE [err |-> "", rows |-> Flatten([i \in 1..Len(blocks) |-> blocks[i].rows]),
            columns |-> Columns]

(***************************************************************************)
(* Grass Condenser: agggrass (copies p1, p3, p4 and p5).                   *)
(***************************************************************************)
\* thresholds / thr_map / thr.
thresholds == [l \in {"3g-1", "3g-2", "Cameron Bank", "South"} |-> IF l = "South" THEN 3 ELSE 2]

GrassKeyColumns == <<"date", "time", "type", "booker", "details">>

\* The columns of df.fillna({...: ''}) in copy v.
FillColumns(v) ==
  IF v \in {"p1", "p4"} THEN {"date", "time", "type", "booker", "details"} ELSE {"details"}

\* r with the missing values of the columns cols replaced by ''.
FillRow(r, cols) == [c \in DOMAIN r |-> IF c \in cols /\ IsNa(r[c]) THEN "" ELSE r[c]]

FillNa(df, cols) == [i \in 1..Len(df) |-> FillRow(df[i], cols)]

\* The values of column col in order of first appearance, missing values left out
\* (the group order of groupby(col, sort=False)).
RECURSIVE FirstSeen(_, _, _)
FirstSeen(df, col, seen) ==
  IF df = <<>> THEN <<>>
  ELSE IF IsNa(Head(df)[col]) \/ Head(df)[col] \in seen THEN FirstSeen(Tail(df), col, seen)
  ELSE <<Head(df)[col]>> \o FirstSeen(Tail(df), col, seen \cup {Head(df)[col]})

GrassCollapseMutDistinct(x, thr) ==
  IF NUnique(x) = thr THEN [err |-> "", val |-> "ALL"] ELSE JoinSorted(x)

\* The lambda agggrass applies to the sublocation column x of a group.
GrassCollapse(x, thr) ==
  IF Len(x) = thr THEN [err |-> "", val |-> "ALL"] ELSE JoinSorted(x)

GrassBlockMutReversed(group, loc) ==
  IF loc \in DOMAIN thresholds
  THEN LET keys == GroupKeys(group, GrassKeyColumns)
           cell(k) == GrassCollapse(Series(GroupRows(group, GrassKeyColumns, k), "sublocation"),
                                    thresholds[loc])
       IN  [err |-> IF \E i \in 1..Len(keys) : cell(keys[i]).err # "" THEN "TypeError" ELSE "",
            rows |-> [i \in 1..Len(keys) |->
                        Row(keys[i][1], loc, cell(keys[i]).val, keys[i][2], keys[i][3],
                            keys[i][4], keys[i][5])]]
  ELSE [err |-> "", rows |-> [i \in 1..Len(group) |-> group[Len(group) + 1 - i]]]

\* The part of the result that comes from the rows group of location loc.
GrassBlock(group, loc) ==
  IF loc \in DOMAIN thresholds
  THEN LET keys == GroupKeys(group, GrassKeyColumns)
           cell(k) == GrassCollapse(Series(GroupRows(group, GrassKeyColumns, k), "sublocation"),
                                    thresholds[loc])
       IN  [err |-> IF \E i \in 1..Len(keys) : cell(keys[i]).err # "" THEN "TypeError" ELSE "",
            rows |-> [i \in 1..Len(keys) |->
                        Row(keys[i][1], loc, cell(keys[i]).val, keys[i][2], keys[i][3],
                            keys[i][4], keys[i][5])]]
  ELSE [err |-> "", rows |-> group]

\* agggrass(df) of copy v: the exception raised ("" when none) and the rows
\* returned.  pd.concat of no block raises ValueError.
agggrass(df, v) ==
  LET filled == FillNa(df, FillColumns(v))
      locs == FirstSeen(filled, "location", {})
      blocks == [i \in 1..Len(locs) |-> GrassBlock(Where(filled, "location", locs[i]), locs[i])]
  IN  IF \E i \in 1..Len(blocks) : blocks[i].err # ""
      THEN [err |-> "TypeError", rows |-> <<>>, columns |-> <<>>]
      ELSE IF blocks = <<>> THEN [err |-> "ValueError", rows |-> <<>>, columns |-> <<>>]
      ELSE [err |-> "", rows |-> Flatten([i \in 1..Len(blocks) |-> blocks[i].rows]),
            columns |-> Columns]

(***************************************************************************)
(* Grass tab of copy p2: merge_rows_by_sublocations.                       *)
(***************************************************************************)
\* group_cols.
group_cols == <<"date", "location", "time", "type", "booker", "details">>

merge_rows_by_sublocations_MutRowOrder(df_location, expected_sublocations) ==
  LET keys == GroupKeys(df_location, group_cols)
      x(k) == Series(GroupRows(df_location, group_cols, k), "sublocation")
      sublocs(k) == FirstSeen(GroupRows(df_location, group_cols, k), "sublocation", {})
      raises(k) == NaN \in Range(x(k))
      val(k) == IF k[2] \in DOMAIN expected_sublocations
                   /\ Len(sublocs(k)) = expected_sublocations[k[2]]
                THEN "ALL" ELSE Join(sublocs(k), ", ")
  IN  IF \E i \in 1..Len(keys) : raises(keys[i])
      THEN [err |-> "TypeError", rows |-> <<>>, columns |-> <<>>]
      ELSE [err |-> "",
            rows |-> [i \in 1..Len(keys) |->
                        Row(keys[i][1], keys[i][2], val(keys[i]), keys[i][3], keys[i][4],
                            keys[i][5], keys[i][6])],
            columns |-> Columns]

\* merge_rows_by_sublocations(df_location, expected_sublocations) on a table
\* that is not empty: groupby(group_cols)['sublocation'].agg(sorted(set(x))),
\* then process_sublocations on every group.  sorted() raises TypeError when a
\* missing sublocation meets a string, and ", ".join raises it on a group
\* whose only sublocation is missing, unless that group counts as "ALL".
merge_rows_by_sublocations(df_location, expected_sublocations) ==
  LET keys == GroupKeys(df_location, group_cols)
      x(k) == Series(GroupRows(df_location, group_cols, k), "sublocation")
      sublocs(k) == IF Range(x(k)) = {NaN} THEN <<NaN>> ELSE SortedStr(Range(x(k)) \ {NaN})
      isAll(k) == k[2] \in DOMAIN expected_sublocations
                    /\ Len(sublocs(k)) = expected_sublocations[k[2]]
      raises(k) == \/ SortRaises(Range(x(k)))
                   \/ Range(x(k)) = {NaN} /\ ~isAll(k)
      val(k) == IF isAll(k) THEN "ALL" ELSE Join(sublocs(k), ", ")
  IN  IF \E i \in 1..Len(keys) : raises(keys[i])
      THEN [err |-> "TypeError", rows |-> <<>>, columns |-> <<>>]
      ELSE [err |-> "",
            rows |-> [i \in 1..Len(keys) |->
                        Row(keys[i][1], keys[i][2], val(keys[i]), keys[i][3], keys[i][4],
                            keys[i][5], keys[i][6])],
            columns |-> Columns]

(***************************************************************************)
(* Daily Overview tab: the export table.                                    *)
(***************************************************************************)
\* The copies whose Daily Overview tab collects one aggregate_bookings result
\* per date in agg_list and concatenates them (app.py, p1, p2 and p4).
DailyLoopVariants == {"app", "p1", "p2", "p4"}

daily_export_MutFirstSeen(filtered_df, v) ==
  LET ds == FirstSeen(filtered_df, "date", {})
      agg_list == [i \in 1..Len(ds) |-> aggregate_bookings(Where(filtered_df, "date", ds[i]), v)]
  IN  IF SortRaises(Unique(filtered_df, "date")) \/ \E i \in 1..Len(agg_list) : agg_list[i].err # ""
      THEN [err |-> "TypeError", rows |-> <<>>, columns |-> <<>>]
      ELSE [err |-> "", rows |-> Flatten([i \in 1..Len(agg_list) |-> agg_list[i].rows]),
            columns |-> Columns]

\* aggregated_all of the Daily Overview tab for a filtered table that is not
\* empty: for d in sorted(filtered_df['date'].unique()), the result of
\* aggregate_bookings(filtered_df[filtered_df['date'] == d]) appended to
\* agg_list, then pd.concat(agg_list, ignore_index=True).  A table whose dates
\* are all missing gives the one date NaN, which selects no row.
daily_export(filtered_df, v) ==
  LET dates == Unique(filtered_df, "date")
      ds == IF dates = {NaN} THEN <<NaN>> ELSE SortedStr(dates \ {NaN})
      agg_list == [i \in 1..Len(ds) |-> aggregate_bookings(Where(filtered_df, "date", ds[i]), v)]
  IN  IF SortRaises(dates) \/ \E i \in 1..Len(agg_list) : agg_list[i].err # ""
      THEN [err |-> "TypeError", rows |-> <<>>, columns |-> <<>>]
      ELSE [err |-> "", rows |-> Flatten([i \in 1..Len(agg_list) |-> agg_list[i].rows]),
            columns |-> Columns]

(***************************************************************************)
(* Highlighting: highlight_rows (copies p1 .. p5).                         *)
(***************************************************************************)
\* The style of a "Grounds-15" row and of a "(game)" row in copy v.
Blue(v) ==
  IF v \in {"p1", "p2", "p3"} THEN "background-color: #80D4ED"
  ELSE IF v = "p4" THEN "background-color: #156082"
  ELSE "background-color:#00B050"

Yellow(v) ==
  IF v \in {"p1", "p2", "p3"} THEN "background-color: lightyellow"
  ELSE IF v = "p4" THEN "background-color: #AB7D15"
  ELSE "background-color:#F2B800"

\* The columns of the table the Grass tab styles in copy v.
DisplayColumns(v) ==
  IF v = "p3" THEN Columns
  ELSE IF v = "p2" THEN <<"sublocation", "date", "time", "type", "booker", "details">>
  ELSE <<"date", "sublocation", "time", "type", "booker", "details">>

Repeat(x, n) == [i \in 1..n |-> x]

highlight_rows_MutSubstring(row, v) ==
  LET n == Len(DisplayColumns(v))
  IN  IF IsNa(row.type) THEN [err |-> "TypeError", cells |-> <<>>]
      ELSE IF Contains(row.type, "Grounds-15") THEN [err |-> "", cells |-> Repeat(Blue(v), n)]
      ELSE IF Contains(row.type, "(game)") THEN [err |-> "", cells |-> Repeat(Yellow(v), n)]
      ELSE [err |-> "", cells |-> Repeat("", n)]

\* highlight_rows(row) of copy v, row being a row of the displayed table: the
\* exception raised ("" when none) and the style of each cell.  A missing type
\* is a float: it is not equal to "Grounds-15", and the test "(game)" in it
\* raises TypeError.
highlight_rows(row, v) ==
  LET n == Len(DisplayColumns(v))
  IN  IF IsNa(row.type) THEN [err |-> "TypeError", cells |-> <<>>]
      ELSE IF row.type = "Grounds-15" THEN [err |-> "", cells |-> Repeat(Blue(v), n)]
      ELSE IF Contains(row.type, "(game)") THEN [err |-> "", cells |-> Repeat(Yellow(v), n)]
      ELSE [err |-> "", cells |-> Repeat("", n)]

\* display_df.style.apply(highlight_rows, axis=1): the style of every row; the
\* first exception ends the rendering.
StyleApply(df, v) ==
  LET styles == [i \in 1..Len(df) |-> highlight_rows(df[i], v)]
  IN  [err |-> IF \E i \in 1..Len(df) : styles[i].err # "" THEN "TypeError" ELSE "",
       rows |-> df, styles |-> styles]

(***************************************************************************)
(* Dates: pd.to_datetime(..., dayfirst=True), weekday(), strftime().  A    *)
(* datetime is the number of days since 01/01/1970.                        *)
(***************************************************************************)
Digits == "0123456789"

RECURSIVE ParseInt(_)
ParseInt(s) ==
  IF Len(s) = 0 THEN 0
  ELSE 10 * ParseInt(SubSeq(s, 1, Len(s) - 1)) + (IndexIn(Digits, CharAt(s, Len(s))) - 1)

\* The days from 01/01/1970 to the day d of month m of year y.
DaysFromCivil(y, m, d) ==
  LET yy == IF m <= 2 THEN y - 1 ELSE y
      era == yy \div 400
      yoe == yy - era * 400
      mp == (m + 9) % 12
      doy == (153 * mp + 2) \div 5 + d - 1
      doe == yoe * 365 + yoe \div 4 - yoe \div 100 + doy
  IN  era * 146097 + doe - 719468

\* The day, month and year of the datetime z.
CivilFromDays(z) ==
  LET zz == z + 719468
      era == zz \div 146097
      doe == zz - era * 146097
      yoe == (doe - doe \div 1460 + doe \div 36524 - doe \div 146096) \div 365
      doy == doe - (365 * yoe + yoe \div 4 - yoe \div 100)
      mp == (5 * doy + 2) \div 153
      m == IF mp < 10 THEN mp + 3 ELSE mp - 9
  IN  [d |-> doy - (153 * mp + 2) \div 5 + 1, m |-> m,
       y |-> yoe + era * 400 + (IF m <= 2 THEN 1 ELSE 0)]

\* pd.to_datetime(s, dayfirst=True) of a string "dd/mm/yyyy".
to_datetime(s) ==
  DaysFromCivil(ParseInt(SubSeq(s, 7, 10)), ParseInt(SubSeq(s, 4, 5)), ParseInt(SubSeq(s, 1, 2)))

\* datetime.weekday(): Monday is 0; 01/01/1970 was a Thursday.
weekday(z) == (z + 3) % 7

DayNames == <<"Monday", "Tuesday", "Wednesday", "Thursday", "Friday", "Saturday", "Sunday">>

\* n in decimal, zero-padded to w digits.
RECURSIVE Padded(_, _)
Padded(n, w) ==
  IF w = 0 THEN "" ELSE Padded(n \div 10, w - 1) \o CharAt(Digits, (n % 10) + 1)

\* z.strftime('%A %d/%m/%Y')
strftime(z) ==
  LET c == CivilFromDays(z)
  IN  DayNames[weekday(z) + 1] \o " " \o Padded(c.d, 2) \o "/" \o Padded(c.m, 2) \o "/"
        \o Padded(c.y, 4)

(***************************************************************************)
(* Weekly Grid Builder: the AutoGS block of the Grass tab (copies p1, p4   *)
(* and p5).                                                                *)
(***************************************************************************)
grass_locations ==
  <<"East (summer)", "East (winter)", "Cameron Bank", "South", "3g-1", "3g-2">>

ActivityLocations == <<"3g-1", "3g-2">>

pitch_mappings ==
  << <<"East (winter)", "Pitch 1", "East 1">>,
     <<"East (winter)", "Pitch 2", "East 2">>,
     <<"East (winter)", "Pitch 3", "East 3">>,
     <<"East (winter)", "Training", "East Training">>,
     <<"East (summer)", "Pitch 1", "Cricket">>,
     <<"South", "S 1", "South 1">>,
     <<"South", "S 2", "South 2">>,
     <<"South", "S 3", "South 3">>,
     <<"Cameron Bank", "C B 1", "CB1">>,
     <<"Cameron Bank", "C B 2", "CB2">> >>

pitch_names == [i \in 1..Len(pitch_mappings) |-> pitch_mappings[i][3]] \o ActivityLocations

GrassSortColumns == <<"location", "sublocation", "date", "time", "type", "booker">>

\* The order of sort_values on column col: missing values last; the dates are
\* strings when p1 and p4 sort and datetimes when p5 sorts.
CellLess(x, y, col, v) ==
  IF IsNa(x) THEN FALSE
  ELSE IF IsNa(y) THEN TRUE
  ELSE IF col = "date" /\ v = "p5" THEN to_datetime(x) < to_datetime(y)
  ELSE StrLess(x, y)

RowLess(a, b, cols, v) ==
  LET diff == {i \in 1..Len(cols) : a[cols[i]] # b[cols[i]]}
  IN  diff # {} /\ CellLess(a[cols[MinOf(diff)]], b[cols[MinOf(diff)]], cols[MinOf(diff)], v)

\* r put into the sorted table df after every row that is not greater (stable).
RECURSIVE InsertSorted(_, _, _, _)
InsertSorted(r, df, cols, v) ==
  IF df = <<>> THEN <<r>>
  ELSE IF RowLess(r, Head(df), cols, v) THEN <<r>> \o df
  ELSE <<Head(df)>> \o InsertSorted(r, Tail(df), cols, v)

sort_values_MutUnsorted(df, cols, v) == df

\* df.sort_values(by=cols)
RECURSIVE sort_values(_, _, _)
sort_values(df, cols, v) ==
  IF df = <<>> THEN <<>>
  ELSE InsertSorted(df[Len(df)], sort_values(SubSeq(df, 1, Len(df) - 1), cols, v), cols, v)

\* df_grass / gdf: the rows of the grass locations, sorted; p1 and p4 have
\* replaced the missing details by '' before.
df_grass(df, v) ==
  LET filled == IF v = "p5" THEN df ELSE FillNa(df, {"details"})
  IN  sort_values(SelectSeq(filled, LAMBDA r : r.location \in Range(grass_locations)),
                  GrassSortColumns, v)

EarliestMutStringMin(g) == to_datetime(SortedStr(Range(Series(g, "date")))[1])

\* df_grass["date"].min() after the conversion to datetimes.
Earliest(g) == MinOf({to_datetime(g[i].date) : i \in 1..Len(g)})

\* The index of the first occurrence of needle in s, 0 when there is none.
Find(s, needle) ==
  LET hits == {i \in 1..(Len(s) - Len(needle) + 1) : SubSeq(s, i, i + Len(needle) - 1) = needle}
  IN  IF hits = {} THEN 0 ELSE MinOf(hits)

\* s.split(" to ")[0]
StartOf(s) == IF Find(s, " to ") = 0 THEN s ELSE SubSeq(s, 1, Find(s, " to ") - 1)

\* The rest of s after its first " to ".
EndOf(s) == SubSeq(s, Find(s, " to ") + 4, Len(s))

\* s.replace(c, '') for a one-character c.
RECURSIVE Remove(_, _)
Remove(s, c) ==
  IF Len(s) = 0 THEN ""
  ELSE (IF CharAt(s, 1) = c THEN "" ELSE CharAt(s, 1)) \o Remove(SubSeq(s, 2, Len(s)), c)

\* The rows of location loc on the datetime dt, in the order of g.
RowsOn(g, loc, dt) == SelectSeq(g, LAMBDA r : r.location = loc /\ to_datetime(r.date) = dt)

\* activity[loc].get(dt): the start time of the activity of loc on dt, None (here
\* NaN) when loc has no row on dt.  p1 and p4 take the minimum of the start
\* times, p5 the start time of the first row in the order of gdf.
ActivityStart(g, loc, dt, v) ==
  LET rows == RowsOn(g, loc, dt)
  IN  IF rows = <<>> THEN NaN
      ELSE IF v = "p5" THEN StartOf(rows[1].time)
      ELSE SortedStr({StartOf(rows[i].time) : i \in 1..Len(rows)})[1]

\* str(x) inside an f-string: a missing value prints as nan.
Shown(x) == IF IsNa(x) THEN "nan" ELSE x

\* The line of one booking in the cell of its pitch.
BookingLine(r, v) ==
  IF v = "p5"
  THEN Shown(r.details) \o "\n" \o Remove(StartOf(r.time), ":") \o "-" \o Remove(EndOf(r.time), ":")
  ELSE r.details \o "\n" \o Remove(StartOf(r.time), ":") \o "-" \o Remove(EndOf(r.time), ":")

\* The mapping (location, sublocation, display name) of the display name.
MappingOf(name) == pitch_mappings[CHOOSE i \in 1..Len(pitch_mappings) : pitch_mappings[i][3] = name]

\* Whether the cell of name is filled by the activity branch: by the name in
\* p1 and p4, by the presence of rows of that location in p5.
IsActivityCell(g, name, v) ==
  IF v = "p5" THEN name \in Range(ActivityLocations) /\ name \in Range(Series(g, "location"))
  ELSE name \in Range(ActivityLocations)

\* Whether filling the cell of name raises: in p5 an activity location without
\* rows is looked up among the pitch mappings, where it is not (StopIteration).
CellRaises(g, name, v) ==
  ~IsActivityCell(g, name, v) /\ name \in Range(ActivityLocations)

CellMutAnySublocation(g, name, dt, v) ==
  IF IsActivityCell(g, name, v)
  THEN IF IsNa(ActivityStart(g, name, dt, v)) THEN ""
       ELSE "Activity starts " \o ActivityStart(g, name, dt, v)
  ELSE LET bookings == RowsOn(g, MappingOf(name)[1], dt)
       IN  Join([i \in 1..Len(bookings) |-> BookingLine(bookings[i], v)], "\n")

\* The text written into the cell of display name name on the datetime dt.
Cell(g, name, dt, v) ==
  IF IsActivityCell(g, name, v)
  THEN IF v = "p5"
       THEN "Activity starts " \o (IF IsNa(ActivityStart(g, name, dt, v)) THEN ""
                                   ELSE ActivityStart(g, name, dt, v))
       ELSE IF IsNa(ActivityStart(g, name, dt, v)) \/ ActivityStart(g, name, dt, v) = ""
            THEN ""
            ELSE "Activity starts " \o ActivityStart(g, name, dt, v)
  ELSE LET m == MappingOf(name)
           bookings == SelectSeq(RowsOn(g, m[1], dt), LAMBDA r : r.sublocation = m[2])
       IN  Join([i \in 1..Len(bookings) |-> BookingLine(bookings[i], v)], "\n")

NoGrid == <<>>

GridMutWorkingDays(g, monday, v) ==
  [week |-> [i \in 1..5 |-> monday + i - 1],
   names |-> pitch_names,
   cells |-> [r \in 1..Len(pitch_names) |->
                [c \in 1..5 |-> Cell(g, pitch_names[r], monday + c - 1, v)]]]

\* The worksheet: the 7 days from monday and a cell for every name and day.
Grid(g, monday, v) ==
  [week |-> [i \in 1..7 |-> monday + i - 1],
   names |-> pitch_names,
   cells |-> [r \in 1..Len(pitch_names) |->
                [c \in 1..7 |-> Cell(g, pitch_names[r], monday + c - 1, v)]]]

\* The test earliest.weekday() != 0, negated.
IsMonday(z) == weekday(z) = 0

\* The AutoGS block of copy v on the normalized table df: the exception that
\* ends it ("" when none), the st.error message shown ("" when none) and the
\* grid written (NoGrid when none).
AutoGS(df, v) ==
  LET g == df_grass(df, v)
  IN  IF g = <<>>
      THEN IF v = "p1" THEN [err |-> "", message |-> "No grass bookings to process.", grid |-> NoGrid]
           ELSE [err |-> "", message |-> "", grid |-> NoGrid]
      ELSE IF ~IsMonday(Earliest(g))
      THEN [err |-> "",
            message |-> "Earliest date " \o strftime(Earliest(g))
                          \o (IF v = "p5" THEN " not Monday" ELSE " is not a Monday."),
            grid |-> NoGrid]
      ELSE IF v = "p1" THEN [err |-> "NameError", message |-> "", grid |-> NoGrid]
      ELSE IF \E i \in 1..Len(pitch_names) : CellRaises(g, pitch_names[i], v)
      THEN [err |-> "StopIteration", message |-> "", grid |-> NoGrid]
      ELSE [err |-> "", message |-> "", grid |-> Grid(g, Earliest(g), v)]

(***************************************************************************)
(* Row Normalizer and the filters of the Daily tab.  A raw row is the      *)
(* sequence of the 30 cells of one line of the header-less CSV.            *)
(***************************************************************************)
\* s.split(sep): the parts of s between the occurrences of sep.
RECURSIVE Split(_, _)
Split(s, sep) ==
  IF Find(s, sep) = 0 THEN <<s>>
  ELSE <<SubSeq(s, 1, Find(s, sep) - 1)>> \o Split(SubSeq(s, Find(s, sep) + Len(sep), Len(s)), sep)

\* df.iloc[:, 23:30] of one raw row.
df_extract(raw) == SubSeq(raw, 24, 30)

\* The number of columns of str.split(' - ', expand=True): the greatest number
\* of parts of a cell; missing cells have no parts.
SplitWidth(df) ==
  LET lens == {Len(Split(df_extract(df[i])[1], " - ")) :
                 i \in {j \in 1..Len(df) : ~IsNa(df_extract(df[j])[1])}}
  IN  IF lens = {} THEN 0 ELSE CHOOSE n \in lens : \A m \in lens : m <= n

\* The i-th column of the split of one cell: a missing cell is missing in every
\* column, a cell with fewer parts is None (here NaN) in the columns it lacks.
SplitCell(c, i) ==
  IF IsNa(c) THEN NaN
  ELSE IF i <= Len(Split(c, " - ")) THEN Split(c, " - ")[i] ELSE NaN

ProcessRowMutInOrder(raw) ==
  LET e == df_extract(raw)
  IN  Row(SplitCell(e[1], 1), SplitCell(e[1], 2), e[3], e[4], e[5], e[6], e[7])

\* One row of df_processed: the two split columns, then the columns 3, 2, 4, 5
\* and 6 (0-based) of the extract, named date, location, sublocation, time, type,
\* booker, details.
ProcessRow(raw) ==
  LET e == df_extract(raw)
  IN  Row(SplitCell(e[1], 1), SplitCell(e[1], 2), e[4], e[3], e[5], e[6], e[7])

\* The sublocations copy p5 removes from the table of its Daily tab.
excl == {"Chainey", "T R 1", "T R 2"}

\* The normalization of the Daily tab of copy v on the raw table df: the
\* exception raised ("" when none) and the rows of df_processed.  The .str
\* accessor raises on a column without any string; naming the split columns
\* date and location raises unless there are exactly two.  Copy p5 then fills
\* the missing details and removes the rows of the sublocations excl.
Normalize(df, v) ==
  IF SplitWidth(df) = 0 THEN [err |-> "AttributeError", rows |-> <<>>]
  ELSE IF SplitWidth(df) # 2 THEN [err |-> "ValueError", rows |-> <<>>]
  ELSE IF v = "p5"
  THEN [err |-> "",
        rows |-> SelectSeq(FillNa([i \in 1..Len(df) |-> ProcessRow(df[i])], {"details"}),
                           LAMBDA r : r.sublocation \notin excl)]
  ELSE [err |-> "", rows |-> [i \in 1..Len(df) |-> ProcessRow(df[i])]]

\* z.strftime('%d.%m.%Y')
strftime_dots(z) ==
  LET c == CivilFromDays(z)
  IN  Padded(c.d, 2) \o "." \o Padded(c.m, 2) \o "." \o Padded(c.y, 4)

\* The value of a row the date filter compares: the date string, in copy p5
\* date_str, the parsed date formatted with dots.
DateKey(r, v) ==
  IF v # "p5" \/ IsNa(r.date) THEN r.date ELSE strftime_dots(to_datetime(r.date))

\* date_options and location_options: the values observed in the table.
date_options(df, v) == {DateKey(df[i], v) : i \in 1..Len(df)}

location_options(df) == Unique(df, "location")

\* Whether an empty selection is replaced by all the options ("or not
\* selected_dates"): not in copies p3 and p5.
EmptyMeansAll(v) == v \notin {"p3", "p5"}

\* The selection the filter uses.
Resolve(selected, options, v) ==
  IF "ALL" \in selected \/ (EmptyMeansAll(v) /\ selected = {}) THEN options ELSE selected

\* The filters of the Daily tab on the normalized table df with the selections
\* sd and sl made in the two multiselects: the exception raised (sorted() of the
\* options raises on strings mixed with missing values), the selections
\* resolved and the rows of filtered_df.
Filter(df, sd, sl, v) ==
  IF SortRaises(date_options(df, v)) \/ SortRaises(location_options(df))
  THEN [err |-> "TypeError", dates |-> {}, locations |-> {}, rows |-> <<>>]
  ELSE LET dates == Resolve(sd, date_options(df, v), v)
           locs == Resolve(sl, location_options(df), v)
       IN  [err |-> "", dates |-> dates, locations |-> locs,
            rows |-> SelectSeq(df, LAMBDA r : DateKey(r, v) \in dates /\ r.location \in locs)]

(***************************************************************************)
(* The tables handed to the Daily Aggregator.  On the first date: a        *)
(* location with an expected count (3g-1: 2) booked on up to three pitches *)
(* and a location without one (East (summer)); a second booking at 3g-1    *)
(* that differs in details, and one whose details are missing; a booking   *)
(* whose sublocation is missing.  On a second date: 3g-1 again.  One       *)
(* sublocation of East (summer) is itself named "ALL".                     *)
(***************************************************************************)
Booking(d, l, s, f) == Row(d, l, s, "14:00 to 15:00", "Match", "J.Smith", f)

AggRows ==
  {Booking("29/04/2024", "3g-1", s, "Final") : s \in {"Pitch 1", "Pitch 2", "Pitch 3"}}
  \cup {Booking("29/04/2024", "3g-1", s, "Semi") : s \in {"Pitch 1", "Pitch 2"}}
  \cup {Booking("29/04/2024", "3g-1", s, NaN) : s \in {"Pitch 1", "Pitch 2"}}
  \cup {Booking("29/04/2024", "3g-1", NaN, "Final")}
  \cup {Booking("29/04/2024", "East (summer)", s, "Final") : s \in {"Pitch 1", "Pitch 2", "ALL"}}
  \cup {Booking("01/05/2024", "3g-1", s, "Final") : s \in {"Pitch 1", "Pitch 2"}}

TablesOver(R, n) == UNION {[1..k -> R] : k \in 0..n}

NoOut == [err |-> "", rows |-> <<>>, columns |-> <<>>]

InitAgg ==
  /\ variant \in Variants
  /\ store = EmptyStore
  /\ table \in TablesOver(AggRows, MaxRows)
  /\ op = "input"
  /\ out = NoOut

\* A call aggregate_bookings(table).
AggregateBookings ==
  /\ op = "input"
  /\ op' = "aggregate_bookings"
  /\ out' = aggregate_bookings(table, variant)
  /\ UNCHANGED <<variant, table, store>>

\* The Daily Overview tab on the filtered table: "No bookings found" and no
\* export table when it is empty, else the per-date export table.
DailyOverview ==
  /\ op = "input"
  /\ variant \in DailyLoopVariants
  /\ op' = "DailyOverview"
  /\ out' = IF table = <<>> THEN NoOut ELSE daily_export(table, variant)
  /\ UNCHANGED <<variant, table, store>>

NextAgg == AggregateBookings \/ DailyOverview

SpecAgg == InitAgg /\ [][NextAgg]_vars

(***************************************************************************)
(* The tables handed to the Grass Condenser: bookings of one slot at South *)
(* (threshold 3) on three pitches and at East (summer) (no threshold),     *)
(* complete, with the details missing, or with the booker missing.         *)
(***************************************************************************)
GrassBooking(l, s, b, f) == Row("29/04/2024", l, s, "14:00 to 15:00", "Match", b, f)

GrassRows ==
  {GrassBooking("South", s, kf[1], kf[2]) :
     s \in {"S 1", "S 2", "S 3"},
     kf \in {<<"J.Smith", "Final">>, <<"J.Smith", NaN>>, <<NaN, "Final">>}}
  \cup {GrassBooking("East (summer)", "Pitch 1", b, "Final") : b \in {"J.Smith", NaN}}

GrassVariants == {"p1", "p3", "p4", "p5"}

InitGrass ==
  /\ variant \in GrassVariants
  /\ store = EmptyStore
  /\ table \in TablesOver(GrassRows, MaxGrassRows)
  /\ op = "input"
  /\ out = NoOut

\* A call agggrass(table).
Agggrass ==
  /\ op = "input"
  /\ variant \in GrassVariants
  /\ op' = "agggrass"
  /\ out' = agggrass(table, variant)
  /\ UNCHANGED <<variant, table, store>>

NextGrass == Agggrass

SpecGrass == InitGrass /\ [][NextGrass]_vars

(***************************************************************************)
(* The tables that are styled: rows of every kind of type, the type        *)
(* missing included, with details that themselves read like a type.        *)
(***************************************************************************)
HighlightTypes ==
  {"Grounds-15", "Grounds-15 (game)", "Match (game)", "Match", "grounds-15", "", NaN}

HighlightRows ==
  {Row("29/04/2024", "South", "S 1", "14:00 to 15:00", y, "J.Smith", f) :
     y \in HighlightTypes, f \in {"Grounds-15", "Cup (game)"}}

HighlightVariants == {"p1", "p2", "p3", "p4", "p5"}

InitHighlight ==
  /\ variant \in HighlightVariants
  /\ store = EmptyStore
  /\ table \in TablesOver(HighlightRows, MaxStyledRows)
  /\ op = "input"
  /\ out = NoOut

\* The Grass tab styles the rows of table.
StyleRows ==
  /\ op = "input"
  /\ variant \in HighlightVariants
  /\ op' = "highlight_rows"
  /\ out' = StyleApply(table, variant)
  /\ UNCHANGED <<variant, table, store>>

NextHighlight == StyleRows

SpecHighlight == InitHighlight /\ [][NextHighlight]_vars

(***************************************************************************)
(* The tables handed to the Weekly Grid Builder.  29/04/2024 and           *)
(* 06/05/2024 are Mondays, 30/04/2024 a Tuesday, 01/05/2024 a Wednesday;   *)
(* the Fives row is of no grass location and earlier than all the others.  *)
(***************************************************************************)
GridBooking(d, l, s, t, f) == Row(d, l, s, t, "Match", "J.Smith", f)

GridRows ==
  { GridBooking("29/04/2024", "South", "S 1", "14:00 to 15:00", "Final"),
    GridBooking("29/04/2024", "South", "S 1", "09:00 to 10:00", NaN),
    GridBooking("30/04/2024", "South", "S 1", "14:00 to 15:00", "Final"),
    GridBooking("30/04/2024", "South", "S 9", "14:00 to 15:00", "Final"),
    GridBooking("01/05/2024", "South", "S 2", "14:00 to 15:00", "Semi"),
    GridBooking("06/05/2024", "South", "S 1", "14:00 to 15:00", "Final"),
    GridBooking("29/04/2024", "3g-1", "Pitch 2", "09:00 to 10:00", "Final"),
    GridBooking("29/04/2024", "3g-1", "Pitch 1", "14:00 to 15:00", "Final"),
    GridBooking("30/04/2024", "3g-2", "Pitch 1", "14:00 to 15:00", "Final"),
    GridBooking("23/04/2024", "Fives", "Court 1", "14:00 to 15:00", "Final") }

GridVariants == {"p1", "p4", "p5"}

NoGridOut == [err |-> "", message |-> "", grid |-> NoGrid]

InitGrid ==
  /\ variant \in GridVariants
  /\ store = EmptyStore
  /\ table \in TablesOver(GridRows, MaxGridRows)
  /\ op = "input"
  /\ out = NoGridOut

\* The Grass tab reaches its AutoGS block with table as the normalized rows.
LaunchAutoGS ==
  /\ op = "input"
  /\ variant \in GridVariants
  /\ op' = "AutoGS"
  /\ out' = AutoGS(table, variant)
  /\ UNCHANGED <<variant, table, store>>

NextGrid == LaunchAutoGS

SpecGrid == InitGrid /\ [][NextGrid]_vars

(***************************************************************************)
(* The raw tables of the Daily tab.  The cells 24 .. 30 of a raw row are   *)
(* the combined field, a cell that is not used, the time, the sublocation, *)
(* the type, the booker and the details.  The combined field is well       *)
(* formed, lacks the separator, is empty, or has the separator twice; one  *)
(* sublocation is among those copy p5 removes.                             *)
(***************************************************************************)
RawRow(combined, sub) ==
  [i \in 1..30 |->
     IF i <= 23 THEN ""
     ELSE <<combined, "x", "14:00 to 15:00", sub, "Match", "J.Smith", "Final">>[i - 23]]

RawRows ==
  { RawRow("01/05/2024 - South", "Pitch 1"),
    RawRow("29/04/2024 - 3g-1", "Pitch 2"),
    RawRow("29/04/2024 - South", "Chainey"),
    RawRow("29/04/2024", "Pitch 1"),
    RawRow(NaN, "Pitch 1"),
    RawRow("29/04/2024 - East - North", "Pitch 1") }

\* pd.read_csv raises on a file without lines, so a raw table has a row.
RawTables == TablesOver(RawRows, MaxRawRows) \ {<<>>}

NoDaily ==
  [err |-> "", rows |-> <<>>, sel_dates |-> {}, sel_locs |-> {}, dates |-> {},
   locations |-> {}, filtered |-> <<>>]

InitDaily ==
  /\ variant \in Variants
  /\ store = EmptyStore
  /\ table \in RawTables
  /\ op = "input"
  /\ out = NoDaily

\* The script normalizes the uploaded table.
NormalizeRows ==
  /\ op = "input"
  /\ op' = "normalized"
  /\ out' = [NoDaily EXCEPT !.err = Normalize(table, variant).err,
                            !.rows = Normalize(table, variant).rows]
  /\ UNCHANGED <<variant, table, store>>

\* The script goes on to the filters, with the selections sd and sl made in the
\* two multiselects among "ALL" and the options.
ApplyFilters ==
  /\ op = "normalized"
  /\ out.err = ""
  /\ \E sd \in SUBSET ({"ALL"} \cup (date_options(out.rows, variant) \ {NaN})),
        sl \in SUBSET ({"ALL"} \cup (location_options(out.rows) \ {NaN})) :
       LET f == Filter(out.rows, sd, sl, variant)
       IN  out' = [out EXCEPT !.err = f.err, !.sel_dates = sd, !.sel_locs = sl,
                              !.dates = f.dates, !.locations = f.locations,
                              !.filtered = f.rows]
  /\ op' = "filtered"
  /\ UNCHANGED <<variant, table, store>>

NextDaily == NormalizeRows \/ ApplyFilters

SpecDaily == InitDaily /\ [][NextDaily]_vars

(***************************************************************************)
(* One run of the script of copy p1, p4 or p5 with a CSV loaded, on the    *)
(* normalized rows of that CSV: the tabs in the order the script reaches   *)
(* them.  An exception no handler catches ends the run where it is raised. *)
(***************************************************************************)
\* The Daily Overview tab with the selections left at "ALL"; copy p5 has
\* filled the missing details and dropped the excluded sublocations.
DailyTabOut(df, v) ==
  LET proc == IF v = "p5"
              THEN SelectSeq(FillNa(df, {"details"}), LAMBDA r : r.sublocation \notin excl)
              ELSE df
  IN  IF proc = <<>> THEN NoOut ELSE daily_export(proc, v)

\* df_to_show of the Grass tab for the rows grp of location loc:
\* agggrass(grp) when the location has a threshold, else grp.
df_to_show(grp, loc, v) ==
  IF grp = <<>> THEN [err |-> "", rows |-> <<>>]
  ELSE IF loc \in DOMAIN thresholds THEN agggrass(grp, v)
  ELSE [err |-> "", rows |-> grp]

\* The tables shown, one after the other, styled with highlight_rows.
Styled(shown, v) ==
  IF \E i \in 1..Len(shown) : shown[i].err # "" \/ StyleApply(shown[i].rows, v).err # ""
  THEN [err |-> "TypeError", rows |-> <<>>]
  ELSE [err |-> "", rows |-> Flatten([i \in 1..Len(shown) |-> shown[i].rows])]

\* The bookings the Grass tab displays: df_to_show of every grass location
\* with rows, in the order of grass_locations.
GrassDisplay(df, v) ==
  Styled([i \in 1..Len(grass_locations) |->
            df_to_show(Where(df_grass(df, v), "location", grass_locations[i]),
                       grass_locations[i], v)], v)

\* The table the Full Processed Data tab shows; copy p5 formats its dates.
FullProcessed(df, v) ==
  [err |-> "",
   rows |-> IF v = "p5" THEN [i \in 1..Len(df) |-> [df[i] EXCEPT !.date = DateKey(df[i], v)]]
            ELSE df]

NotRun == [err |-> "not run", rows |-> <<>>]

NoRun ==
  [daily |-> NotRun, grass |-> NotRun, grid |-> NotRun, full |-> NotRun, sharing |-> NotRun,
   halted |-> FALSE]

InitRun ==
  /\ variant \in GridVariants
  /\ store = EmptyStore
  /\ table \in TablesOver(GridRows, MaxRunRows)
  /\ op = "input"
  /\ out = NoRun

\* with tabs[0]: the Daily Overview tab.
DailyTab ==
  /\ op = "input"
  /\ op' = "Daily"
  /\ \E daily \in {DailyTabOut(table, variant)} :
       out' = [out EXCEPT !.daily = daily, !.halted = daily.err # ""]
  /\ UNCHANGED <<variant, table, store>>

\* with tabs[1]: the Grass tab; in copies p4 and p5 the AutoGS block is its
\* last part.
GrassTab ==
  /\ op = "Daily"
  /\ ~out.halted
  /\ op' = "Grass"
  /\ \E shown \in {GrassDisplay(table, variant)}, grid \in {AutoGS(table, variant)} :
       out' = IF shown.err # "" THEN [out EXCEPT !.grass = shown, !.halted = TRUE]
              ELSE IF variant = "p1" THEN [out EXCEPT !.grass = shown]
              ELSE [out EXCEPT !.grass = shown, !.grid = grid, !.halted = grid.err # ""]
  /\ UNCHANGED <<variant, table, store>>

\* The AutoGS block of copy p1, at module level after the Grass tab.
ModuleAutoGS ==
  /\ op = "Grass"
  /\ variant = "p1"
  /\ ~out.halted
  /\ op' = "AutoGS"
  /\ \E grid \in {AutoGS(table, variant)} :
       out' = [out EXCEPT !.grid = grid, !.halted = grid.err # ""]
  /\ UNCHANGED <<variant, table, store>>

\* with tabs[2]: the Full Processed Data tab.
FullTab ==
  /\ \/ op = "AutoGS"
     \/ op = "Grass" /\ variant # "p1"
  /\ ~out.halted
  /\ op' = "Full"
  /\ out' = [out EXCEPT !.full = FullProcessed(table, variant)]
  /\ UNCHANGED <<variant, table, store>>

\* with tabs[3]: the Sharing tab, with its Generate Shareable Code button.
SharingTab ==
  /\ op = "Full"
  /\ ~out.halted
  /\ op' = "Sharing"
  /\ out' = [out EXCEPT !.sharing = [err |-> "", rows |-> <<>>]]
  /\ UNCHANGED <<variant, table, store>>

NextRun == DailyTab \/ GrassTab \/ ModuleAutoGS \/ FullTab \/ SharingTab

SpecRun == InitRun /\ [][NextRun]_vars

(***************************************************************************)
(* Sharing facilities of copies p1, p4 and p5.  The text of a CSV file is  *)
(* the sequence of its lines, each with its line ending; a line is its     *)
(* cells joined by commas (the cells here need no quoting and none reads   *)
(* as a number).                                                           *)
(***************************************************************************)
Line(s, e) == [line |-> s, eol |-> e]

\* open(path, "r").read(): universal newlines turn every line ending into \n.
\* (open(path, "w").write(text) writes the text as it is.)
ReadFile(text) == [i \in 1..Len(text) |-> Line(text[i].line, "\n")]

\* pd.read_csv(io.StringIO(text), header=None): EmptyDataError on a text
\* without lines, ParserError on a line with more fields than the first;
\* shorter lines are padded and empty cells are missing values.
read_csv(text) ==
  LET fields(i) == Split(text[i].line, ",")
      cell(i, j) == IF j > Len(fields(i)) \/ fields(i)[j] = "" THEN NaN ELSE fields(i)[j]
  IN  IF text = <<>> THEN [err |-> "EmptyDataError", rows |-> <<>>]
      ELSE IF \E i \in 1..Len(text) : Len(fields(i)) > Len(fields(1))
      THEN [err |-> "ParserError", rows |-> <<>>]
      ELSE [err |-> "",
            rows |-> [i \in 1..Len(text) |-> [j \in 1..Len(fields(1)) |-> cell(i, j)]]]

\* df.to_csv(header=False, index=False): missing values are written empty.
to_csv(rows) ==
  [i \in 1..Len(rows) |->
     Line(Join([j \in 1..Len(rows[i]) |-> IF IsNa(rows[i][j]) THEN "" ELSE rows[i][j]], ","),
          "\n")]

\* A text or a table that may be None.
NoText == [some |-> FALSE, text |-> <<>>]

Text(t) == [some |-> TRUE, text |-> t]

NoDf == [some |-> FALSE, rows |-> <<>>]

Df(rows) == [some |-> TRUE, rows |-> rows]

\* The truth value of a text: None and '' are false.
Truthy(t) == t.some /\ t.text # <<>>

ShareVariants == {"p1", "p4", "p5"}

\* The messages of the lookup.
Found(v) == IF v = "p5" THEN "Loaded" ELSE "CSV file loaded from share code."

NotFound(v) ==
  IF v = "p1"
  THEN "The shared CSV file was not found. It may have expired. Please ask for a new share code."
  ELSE IF v = "p4" THEN "The shared CSV file was not found. Please ask for a new share code."
  ELSE "Not found"

\* The result of parsing the working text csv_text in copies p1 and p4: an
\* exception of read_csv is caught and leaves df None.
Parsed(csv_text) ==
  IF Truthy(csv_text) /\ read_csv(csv_text.text).err = ""
  THEN Df(read_csv(csv_text.text).rows) ELSE NoDf

load_MutNoExistsCheck(share_code_input, uploaded_file, files, v) ==
  LET hit == share_code_input # "" /\ share_code_input \in DOMAIN files
      csv_data_from_shared_code == IF hit THEN Text(ReadFile(files[share_code_input])) ELSE NoText
      csv_text == IF v # "p5" /\ Truthy(csv_data_from_shared_code)
                  THEN csv_data_from_shared_code ELSE uploaded_file
      crash == v = "p5" /\ uploaded_file.some /\ read_csv(uploaded_file.text).err # ""
      df == IF v = "p5"
            THEN IF uploaded_file.some /\ ~crash THEN Df(read_csv(uploaded_file.text).rows)
                 ELSE NoDf
            ELSE Parsed(csv_text)
  IN  IF share_code_input # "" /\ ~hit
      THEN [share_code_input |-> share_code_input, csv_data_from_shared_code |-> NoText,
            csv_text |-> NoText, df |-> NoDf, message |-> "", err |-> "FileNotFoundError",
            stopped |-> FALSE, unique_id |-> ""]
      ELSE [share_code_input |-> share_code_input,
            csv_data_from_shared_code |-> csv_data_from_shared_code,
            csv_text |-> csv_text,
            df |-> df,
            message |-> IF share_code_input = "" THEN "" ELSE Found(v),
            err |-> IF crash THEN read_csv(uploaded_file.text).err ELSE "",
            stopped |-> v = "p5" /\ ~crash /\ ~df.some,
            unique_id |-> ""]

\* The load of copy v with share_code_input entered ("" when none) and
\* uploaded_file given (NoText when none), files being the shared folder:
\* the text read from the share code, the working text, the table df, the
\* message of the lookup, the exception that ends the run ("" when none)
\* and whether st.stop() ended it for want of data.  Copy p5 reads the shared
\* file only to offer it for download and parses the upload unguarded.
load(share_code_input, uploaded_file, files, v) ==
  LET hit == share_code_input # "" /\ share_code_input \in DOMAIN files
      csv_data_from_shared_code == IF hit THEN Text(ReadFile(files[share_code_input])) ELSE NoText
      csv_text == IF v # "p5" /\ Truthy(csv_data_from_shared_code)
                  THEN csv_data_from_shared_code ELSE uploaded_file
      crash == v = "p5" /\ uploaded_file.some /\ read_csv(uploaded_file.text).err # ""
      df == IF v = "p5"
            THEN IF uploaded_file.some /\ ~crash THEN Df(read_csv(uploaded_file.text).rows)
                 ELSE NoDf
            ELSE Parsed(csv_text)
  IN  [share_code_input |-> share_code_input,
       csv_data_from_shared_code |-> csv_data_from_shared_code,
       csv_text |-> csv_text,
       df |-> df,
       message |-> IF share_code_input = "" THEN "" ELSE IF hit THEN Found(v) ELSE NotFound(v),
       err |-> IF crash THEN read_csv(uploaded_file.text).err ELSE "",
       stopped |-> v = "p5" /\ ~crash /\ ~df.some,
       unique_id |-> ""]

\* The text Generate Shareable Code writes: csv_data / csv_text in copies p1
\* and p4, df.to_csv(header=False, index=False) in copy p5.
SharedText(run, v) == IF v = "p5" THEN to_csv(run.df.rows) ELSE run.csv_text.text

\* The share codes uuid4 can give and the files a user can upload: none, an
\* empty file, one line, two lines ending in \r\n with an empty cell, a
\* second line longer than the first.
Codes == {"c1", "c2", "c3"}

Uploads ==
  { NoText,
    Text(<<>>),
    Text(<<Line("29/04/2024 - South,S 1", "\n")>>),
    Text(<<Line("29/04/2024 - South,S 1", "\r\n"), Line("30/04/2024 - South,", "\r\n")>>),
    Text(<<Line("29/04/2024 - South", "\n"), Line("30/04/2024 - South,S 2", "\n")>>) }

NoLoad == load("", NoText, EmptyStore, "p1")

InitShare ==
  /\ variant \in ShareVariants
  /\ store = EmptyStore
  /\ table = NoText
  /\ op = "input"
  /\ out = NoLoad

\* A run of the script with a share code entered or not and a file uploaded
\* or not.  Copy p1 shows the uploader only when no shared text was loaded.
Run ==
  \E code \in Codes \cup {""}, up \in Uploads :
    /\ (variant = "p1" /\ code \in DOMAIN store) => up = NoText
    /\ op' = "load"
    /\ table' = up
    /\ out' = load(code, up, store, variant)
    /\ UNCHANGED <<variant, store>>

\* The button Generate Shareable Code of the Sharing tab, in a run that has
\* a table: the text is written under a code uuid4 has not given before.
GenerateShareableCode ==
  /\ op # "input"
  /\ out.df.some
  /\ Cardinality(DOMAIN store) < MaxShared
  /\ \E uid \in Codes \ DOMAIN store :
       /\ store' = [c \in DOMAIN store \cup {uid} |->
                      IF c = uid THEN SharedText(out, variant) ELSE store[c]]
       /\ out' = [out EXCEPT !.unique_id = uid]
  /\ op' = "share"
  /\ UNCHANGED <<variant, table>>

NextShare == Run \/ GenerateShareableCode

SpecShare == InitShare /\ [][NextShare]_vars

(***************************************************************************)
(* The three condensers on one table of grass rows: agggrass and           *)
(* aggregate_bookings of copy p1, merge_rows_by_sublocations of copy p2    *)
(* with the thresholds as its count table.  The callers hand them tables   *)
(* that are not empty.                                                     *)
(***************************************************************************)
CondenseRows ==
  {Booking("29/04/2024", "South", s, f) : s \in {"S 1", "S 2", "S 3"}, f \in {"Final", NaN}}
  \cup {Booking("01/05/2024", "South", "S 1", "Final")}
  \cup {Booking("29/04/2024", "3g-1", s, "Final") : s \in {"Pitch 1", "Pitch 2", "Pitch 3"}}

NotCalled == [err |-> "not called", rows |-> <<>>, columns |-> <<>>]

InitCondense ==
  /\ variant = "p1"
  /\ store = EmptyStore
  /\ table \in TablesOver(CondenseRows, MaxCondenseRows) \ {<<>>}
  /\ op = "input"
  /\ out = [agggrass |-> NotCalled, aggregate_bookings |-> NotCalled,
            merge_rows_by_sublocations |-> NotCalled]

\* A call agggrass(table).
CallAgggrass ==
  /\ out.agggrass = NotCalled
  /\ op' = "agggrass"
  /\ out' = [out EXCEPT !.agggrass = agggrass(table, variant)]
  /\ UNCHANGED <<variant, table, store>>

\* A call aggregate_bookings(table).
CallAggregateBookings ==
  /\ out.aggregate_bookings = NotCalled
  /\ op' = "aggregate_bookings"
  /\ out' = [out EXCEPT !.aggregate_bookings = aggregate_bookings(table, variant)]
  /\ UNCHANGED <<variant, table, store>>

\* A call merge_rows_by_sublocations(table, thresholds).
CallMergeRows ==
  /\ out.merge_rows_by_sublocations = NotCalled
  /\ op' = "merge_rows_by_sublocations"
  /\ out' = [out EXCEPT !.merge_rows_by_sublocations =
                          merge_rows_by_sublocations(table, thresholds)]
  /\ UNCHANGED <<variant, table, store>>

NextCondense == CallAgggrass \/ CallAggregateBookings \/ CallMergeRows

SpecCondense == InitCondense /\ [][NextCondense]_vars

(***************************************************************************)
(* Properties of the Daily Aggregator.                                     *)
(***************************************************************************)
AggDone == op = "aggregate_bookings"

FullKeyColumns == <<"date", "location", "time", "type", "booker", "details">>

\* The (date, location, time, type, booker, details) tuples of the input rows.
InputTuples == {KeyOf(table[i], FullKeyColumns) : i \in 1..Len(table)}

\* The input rows of one tuple, in table order, and their sublocation values.
InputGroup(k) == SelectSeq(table, LAMBDA r : KeyOf(r, FullKeyColumns) = k)

DistinctSublocations(k) == Range(Series(InputGroup(k), "sublocation")) \ {NaN}

OutKey(i) == KeyOf(out.rows[i], FullKeyColumns)

OutRowsOf(k) == {i \in 1..Len(out.rows) : OutKey(i) = k}

HasExpected(loc, n) ==
  loc \in DOMAIN expected_sub_count(variant) /\ expected_sub_count(variant)[loc] = n

\* The strictly ascending sequences over the set S of strings, each joined with ", ".
AscendingJoins(S) ==
  {Join(q, ", ") : q \in {q \in [1..Cardinality(S) -> S] :
                            \A i, j \in 1..Cardinality(S) : i < j => StrLess(q[i], q[j])}}

\* C1: every output row of a group whose number of distinct (present)
\* sublocation values equals the expected count of its location has the
\* sublocation "ALL".
C1_CollapseLaw ==
  AggDone =>
    \A i \in 1..Len(out.rows) :
      HasExpected(out.rows[i].location, Cardinality(DistinctSublocations(OutKey(i))))
        => out.rows[i].sublocation = "ALL"

\* C1 witness: three bookings of one group at 3g-1 on two distinct pitches came
\* out as one row "ALL".
C1_Witness ==
  /\ AggDone
  /\ \E i \in 1..Len(out.rows) :
       /\ out.rows[i].location = "3g-1"
       /\ Series(InputGroup(OutKey(i)), "sublocation") = <<"Pitch 1", "Pitch 2", "Pitch 1">>
       /\ out.rows[i].sublocation = "ALL"

\* C2 (as claimed): a call that returns emits exactly one row for each tuple of
\* the input, rows with a missing key field included, and no other row.
C2_OneRowPerTuple ==
  (AggDone /\ out.err = "") =>
    /\ \A k \in InputTuples : Cardinality(OutRowsOf(k)) = 1
    /\ \A i \in 1..Len(out.rows) : OutKey(i) \in InputTuples

\* C3: no more output rows than input rows, and within a (date, location)
\* partition of the output no two rows share (time, type, booker, details).
C3_CountAndUnique ==
  AggDone =>
    /\ Len(out.rows) <= Len(table)
    /\ \A i, j \in 1..Len(out.rows) :
         (i # j /\ out.rows[i].date = out.rows[j].date
                /\ out.rows[i].location = out.rows[j].location)
           => KeyOf(out.rows[i], AggKeyColumns) # KeyOf(out.rows[j], AggKeyColumns)

\* C3 witness: three input rows came out as two rows of one (date, location)
\* partition.
C3_Witness ==
  /\ AggDone
  /\ Len(table) = 3
  /\ Len(out.rows) = 2
  /\ out.rows[1].date = out.rows[2].date
  /\ out.rows[1].location = out.rows[2].location

\* C9: a group whose rows all carry one and the same sublocation value comes
\* out with that value, whatever its number of rows and the expected count.
C9_SingleSublocation ==
  AggDone =>
    \A i \in 1..Len(out.rows) :
      \A s \in DistinctSublocations(OutKey(i)) :
        (\A n \in 1..Len(InputGroup(OutKey(i))) : InputGroup(OutKey(i))[n].sublocation = s)
          => out.rows[i].sublocation = s

\* C9 witness: two bookings of the same pitch at 3g-1 (expected count 2) came out
\* as one row with that pitch.
C9_Witness ==
  /\ AggDone
  /\ \E i \in 1..Len(out.rows) :
       /\ out.rows[i].location = "3g-1"
       /\ Series(InputGroup(OutKey(i)), "sublocation") = <<"Pitch 2", "Pitch 2">>
       /\ out.rows[i].sublocation = "Pitch 2"

\* C10: a group with two or more distinct sublocations whose number is not the
\* expected count of its location comes out with its sublocation values joined
\* by ", ", ascending, each once.
C10_JoinedList ==
  AggDone =>
    \A i \in 1..Len(out.rows) :
      (/\ Cardinality(DistinctSublocations(OutKey(i))) >= 2
       /\ ~HasExpected(out.rows[i].location, Cardinality(DistinctSublocations(OutKey(i)))))
        => out.rows[i].sublocation \in AscendingJoins(DistinctSublocations(OutKey(i)))

\* C10 witness: the bookings Pitch 2, Pitch 1, Pitch 2 of one group, in that
\* order, came out as "Pitch 1, Pitch 2".
C10_Witness ==
  /\ AggDone
  /\ \E i \in 1..Len(out.rows) :
       /\ Series(InputGroup(OutKey(i)), "sublocation") = <<"Pitch 2", "Pitch 1", "Pitch 2">>
       /\ out.rows[i].sublocation = "Pitch 1, Pitch 2"

\* C11: the rows come out with the dates ascending in string order and, within
\* a date, the locations ascending in string order, so the rows of one (date,
\* location) are contiguous, whatever the order of the input rows.
C11_OutputOrder ==
  AggDone =>
    \A i, j \in 1..Len(out.rows) :
      i < j =>
        \/ StrLess(out.rows[i].date, out.rows[j].date)
        \/ /\ out.rows[i].date = out.rows[j].date
           /\ \/ StrLess(out.rows[i].location, out.rows[j].location)
              \/ out.rows[i].location = out.rows[j].location

\* C11 witness: the rows were handed in with the later-sorting date first and,
\* within it, the later-sorting location first, and came out in order.
C11_Witness ==
  /\ AggDone
  /\ Len(table) = 3
  /\ <<table[1].date, table[1].location>> = <<"29/04/2024", "East (summer)">>
  /\ <<table[2].date, table[2].location>> = <<"29/04/2024", "3g-1">>
  /\ <<table[3].date, table[3].location>> = <<"01/05/2024", "3g-1">>
  /\ Len(out.rows) = 3
  /\ <<out.rows[1].date, out.rows[1].location>> = <<"01/05/2024", "3g-1">>
  /\ <<out.rows[2].date, out.rows[2].location>> = <<"29/04/2024", "3g-1">>
  /\ <<out.rows[3].date, out.rows[3].location>> = <<"29/04/2024", "East (summer)">>

\* C12: on the empty table the call returns, without raising, no rows and
\* exactly the seven canonical columns.
C12_EmptyInput ==
  (AggDone /\ table = <<>>) =>
    /\ out.err = ""
    /\ out.rows = <<>>
    /\ out.columns = <<"date", "location", "sublocation", "time", "type", "booker", "details">>

\* C12 witness: copy p3, which takes the columns from its argument, has
\* returned the empty table for the empty table.
C12_Witness ==
  /\ AggDone
  /\ table = <<>>
  /\ variant = "p3"
  /\ out.err = ""
  /\ Len(out.columns) = 7

\* C22: a group at a location without an entry in the expected-count table
\* that has two or more distinct sublocations comes out with their joined
\* list, which is not "ALL".
C22_NoEntryNoCollapse ==
  AggDone =>
    \A i \in 1..Len(out.rows) :
      (/\ out.rows[i].location \notin DOMAIN expected_sub_count(variant)
       /\ Cardinality(DistinctSublocations(OutKey(i))) >= 2)
        => /\ out.rows[i].sublocation # "ALL"
           /\ out.rows[i].sublocation \in AscendingJoins(DistinctSublocations(OutKey(i)))

\* C22 witness: East (summer), which has no entry, was booked on Pitch 1 and
\* Pitch 2 in one group and came out as the joined list.
C22_Witness ==
  /\ AggDone
  /\ \E i \in 1..Len(out.rows) :
       /\ out.rows[i].location = "East (summer)"
       /\ Series(InputGroup(OutKey(i)), "sublocation") = <<"Pitch 1", "Pitch 2">>
       /\ out.rows[i].sublocation = "Pitch 1, Pitch 2"

\* C29: a row comes out as "ALL" only if its location has an entry in the
\* expected-count table that equals the number, at least two, of the distinct
\* sublocations of its group, or the only sublocation of its group is "ALL".
C29_AllOnlyIf ==
  AggDone =>
    \A i \in 1..Len(out.rows) :
      out.rows[i].sublocation = "ALL" =>
        \/ /\ Cardinality(DistinctSublocations(OutKey(i))) >= 2
           /\ HasExpected(out.rows[i].location, Cardinality(DistinctSublocations(OutKey(i))))
        \/ DistinctSublocations(OutKey(i)) = {"ALL"}

\* C29 witness: the output has a row "ALL" collapsed from two pitches of 3g-1
\* and a row "ALL" of East (summer) whose only source sublocation is "ALL".
C29_Witness ==
  /\ AggDone
  /\ \E i, j \in 1..Len(out.rows) :
       /\ out.rows[i].location = "3g-1"
       /\ out.rows[i].sublocation = "ALL"
       /\ DistinctSublocations(OutKey(i)) = {"Pitch 1", "Pitch 2"}
       /\ out.rows[j].location = "East (summer)"
       /\ out.rows[j].sublocation = "ALL"
       /\ DistinctSublocations(OutKey(j)) = {"ALL"}

GrassDone == op = "agggrass"

\* r with each missing date, time, type, booker and details read as ''.
Coalesced(r) == FillRow(r, {"date", "time", "type", "booker", "details"})

\* The input rows behind the output row o of a location with a threshold: the
\* rows of its location equal to it in every field but the sublocation.
GrassInputGroup(o) ==
  SelectSeq(table, LAMBDA r : /\ r.location = o.location
                             /\ KeyOf(Coalesced(r), GrassKeyColumns) = KeyOf(o, GrassKeyColumns))

GroupSize(o) == IF o.location \in DOMAIN thresholds THEN Len(GrassInputGroup(o)) ELSE 1

RECURSIVE SumSizes(_)
SumSizes(rows) == IF rows = <<>> THEN 0 ELSE GroupSize(Head(rows)) + SumSizes(Tail(rows))

\* C4: at a location with a threshold a group comes out as "ALL" exactly when
\* its number of rows (not of distinct sublocations) is the threshold, and
\* otherwise as its distinct sublocations, ascending, joined by ", ".
C4_ThresholdLaw ==
  GrassDone =>
    \A i \in 1..Len(out.rows) :
      out.rows[i].location \in DOMAIN thresholds =>
        LET g == GrassInputGroup(out.rows[i])
            thr == thresholds[out.rows[i].location]
        IN  /\ out.rows[i].sublocation = "ALL" <=> Len(g) = thr
            /\ Len(g) # thr =>
                 out.rows[i].sublocation \in AscendingJoins(Range(Series(g, "sublocation")))

\* C4 witness: three South rows of one group on two distinct pitches came out
\* as "ALL".
C4_Witness ==
  /\ GrassDone
  /\ \E i \in 1..Len(out.rows) :
       /\ out.rows[i].location = "South"
       /\ Series(GrassInputGroup(out.rows[i]), "sublocation") = <<"S 2", "S 1", "S 2">>
       /\ out.rows[i].sublocation = "ALL"

\* C8 (as claimed): when agggrass returns, the sizes of the groups behind its
\* output rows sum to the number of input rows, a missing date, time, type,
\* booker or details counting as ''.
C8_NoRowLost ==
  (GrassDone /\ out.err = "") => SumSizes(out.rows) = Len(table)

\* The locations of the input that have no threshold.
PassLocations == (Range(Series(table, "location")) \ {NaN}) \ DOMAIN thresholds

\* The rows of location loc in the input and in the output, in their order.
InputOf(loc) == SelectSeq(table, LAMBDA r : r.location = loc)

OutputOf(loc) == SelectSeq(out.rows, LAMBDA r : r.location = loc)

\* The columns in which the copy replaces missing values by '' on entry.
FilledOnEntry == IF variant \in {"p1", "p4"} THEN {"date", "time", "type", "booker", "details"}
                 ELSE {"details"}

\* C23 (as claimed): the rows of a location without a threshold come out as
\* they went in: the same rows with all their fields, in the same order.
C23_PassThroughUnchanged ==
  (GrassDone /\ out.err = "") => \A loc \in PassLocations : OutputOf(loc) = InputOf(loc)

\* C23 (amended): the rows of a location without a threshold come out one for
\* one and in the same order, with all their fields but for the missing values
\* the copy replaces by '' on entry.
C23_PassThrough ==
  (GrassDone /\ out.err = "") =>
    \A loc \in PassLocations :
      OutputOf(loc) = [i \in 1..Len(InputOf(loc)) |-> FillRow(InputOf(loc)[i], FilledOnEntry)]

\* C23 witness: two East (summer) rows, the first without a booker, went in
\* around a South row and came out in their order, the missing booker as ''.
C23_Witness ==
  /\ GrassDone
  /\ out.err = ""
  /\ variant = "p1"
  /\ Len(table) = 3
  /\ table[2].location = "South"
  /\ Len(InputOf("East (summer)")) = 2
  /\ IsNa(InputOf("East (summer)")[1].booker)
  /\ Len(OutputOf("East (summer)")) = 2
  /\ OutputOf("East (summer)")[1].booker = ""
  /\ OutputOf("East (summer)")[2].booker = "J.Smith"

(***************************************************************************)
(* Properties of a run.                                                    *)
(***************************************************************************)
\* The run is over: an exception ended it or the Sharing tab was reached.
RunOver == out.halted \/ op = "Sharing"

\* The grid build of the run failed (an error message) or crashed.
GridFailed == out.grid # NotRun /\ (out.grid.err # "" \/ out.grid.message # "")

GridCrashed == out.grid # NotRun /\ out.grid.err # ""

\* C24: when the grid build of a run failed or crashed, the run still
\* produces the Daily Overview, the Grass display, the Full Processed Data
\* and the Sharing tab, as it does when the grid is built.
C24_GridFailureIsLocal ==
  (RunOver /\ GridFailed) =>
    /\ out.daily = DailyTabOut(table, variant)
    /\ out.grass = GrassDisplay(table, variant)
    /\ out.full = FullProcessed(table, variant)
    /\ out.sharing # NotRun

(***************************************************************************)
(* Properties of the sharing facilities.                                   *)
(***************************************************************************)
\* The step is a run that looks up a share code without a stored file.
LookupMiss ==
  /\ op' = "load"
  /\ out'.share_code_input # ""
  /\ out'.share_code_input \notin DOMAIN store

C30_RoundTrip ==
  [][/\ op' = "share" =>
          /\ out'.unique_id \notin DOMAIN store
          /\ \A c \in DOMAIN store : c \in DOMAIN store' /\ store'[c] = store[c]
          /\ read_csv(ReadFile(store'[out'.unique_id])).rows = out.df.rows
     /\ (op' = "load" /\ out'.share_code_input \in DOMAIN store) =>
          /\ out'.err = ""
          /\ out'.df = Df(read_csv(ReadFile(store[out'.share_code_input])).rows)]_vars

(***************************************************************************)
(* Properties of the three condensers.                                     *)
(***************************************************************************)
AllCalled ==
  /\ out.agggrass # NotCalled
  /\ out.aggregate_bookings # NotCalled
  /\ out.merge_rows_by_sublocations # NotCalled

\* The table holds rows of one location with a threshold, none with a missing
\* field, and no two rows equal in (date, time, type, booker, details) have
\* the same sublocation.
InCondenseScope ==
  /\ \A i \in 1..Len(table) :
       /\ table[i].location \in DOMAIN thresholds
       /\ table[i].location = table[1].location
       /\ \A c \in DOMAIN table[i] : ~IsNa(table[i][c])
  /\ \A i, j \in 1..Len(table) :
       (i # j /\ KeyOf(table[i], GrassKeyColumns) = KeyOf(table[j], GrassKeyColumns))
         => table[i].sublocation # table[j].sublocation

\* C26: on a table in that scope agggrass, aggregate_bookings and
\* merge_rows_by_sublocations all return, with the same set of output rows:
\* one row per group, with the same sublocation value.
C26_SameRows ==
  (AllCalled /\ InCondenseScope) =>
    /\ out.agggrass.err = ""
    /\ out.aggregate_bookings.err = ""
    /\ out.merge_rows_by_sublocations.err = ""
    /\ Range(out.agggrass.rows) = Range(out.aggregate_bookings.rows)
    /\ Range(out.agggrass.rows) = Range(out.merge_rows_by_sublocations.rows)
    /\ Len(out.agggrass.rows) = Len(out.aggregate_bookings.rows)
    /\ Len(out.agggrass.rows) = Len(out.merge_rows_by_sublocations.rows)

\* C26 witness: South rows S 2 and S 1 of one group and a row of another day,
\* in scope, condensed by all three to the list "S 1, S 2" and the single S 1.
C26_Witness ==
  /\ AllCalled
  /\ InCondenseScope
  /\ Series(table, "sublocation") = <<"S 2", "S 1", "S 1">>
  /\ Series(table, "date") = <<"29/04/2024", "29/04/2024", "01/05/2024">>
  /\ Series(out.merge_rows_by_sublocations.rows, "sublocation") = <<"S 1", "S 1, S 2">>
  /\ Series(out.agggrass.rows, "sublocation") = <<"S 1", "S 1, S 2">>
  /\ Series(out.aggregate_bookings.rows, "sublocation") = <<"S 1", "S 1, S 2">>

(***************************************************************************)
(* Properties of the highlighting.                                         *)
(***************************************************************************)
StyleDone == op = "highlight_rows"

\* The style the classification rule gives a row of type y.
RuleStyle(y) ==
  IF y = "Grounds-15" THEN Blue(variant)
  ELSE IF Contains(y, "(game)") THEN Yellow(variant)
  ELSE ""

AllCells(i, style) ==
  /\ out.styles[i].err = ""
  /\ out.styles[i].cells = Repeat(style, Len(DisplayColumns(variant)))

\* C6 (as claimed): a row of type "Grounds-15 (game)" is styled blue.
C6_GroundsGameBlue ==
  StyleDone =>
    \A i \in 1..Len(table) : table[i].type = "Grounds-15 (game)" => AllCells(i, Blue(variant))

\* C6 (amended): a row of type "Grounds-15 (game)" is styled yellow: its type is
\* not equal to "Grounds-15", so only the "(game)" rule applies to it.
C6_GroundsGameYellow ==
  StyleDone =>
    \A i \in 1..Len(table) : table[i].type = "Grounds-15 (game)" => AllCells(i, Yellow(variant))

\* C6 witness: a row of type "Grounds-15 (game)" was styled.
C6_Witness ==
  /\ StyleDone
  /\ \E i \in 1..Len(table) :
       table[i].type = "Grounds-15 (game)" /\ out.styles[i].cells[1] = Yellow(variant)

\* C7 (as claimed): highlight_rows returns for every row, and gives every cell
\* the style of the rule: blue for the type "Grounds-15", else yellow for a type
\* containing "(game)", else none; rows of equal type are styled alike.
C7_TotalOnType ==
  StyleDone =>
    /\ \A i \in 1..Len(table) : AllCells(i, RuleStyle(table[i].type))
    /\ \A i, j \in 1..Len(table) : table[i].type = table[j].type => out.styles[i] = out.styles[j]

(***************************************************************************)
(* Properties of the Weekly Grid Builder.                                  *)
(***************************************************************************)
GridDone == op = "AutoGS"

\* The rows of table a grass location has.
GrassInput == SelectSeq(table, LAMBDA r : r.location \in Range(grass_locations))

\* The day-first readings (day, month, year) of the dates of the grass rows.
GrassDays ==
  {<<ParseInt(SubSeq(GrassInput[i].date, 7, 10)), ParseInt(SubSeq(GrassInput[i].date, 4, 5)),
     ParseInt(SubSeq(GrassInput[i].date, 1, 2))>> : i \in 1..Len(GrassInput)}

\* Whether the reading a is no later than every reading of GrassDays.
IsEarliestDay(a) ==
  \A b \in GrassDays :
    \/ a[1] < b[1]
    \/ a[1] = b[1] /\ a[2] < b[2]
    \/ a[1] = b[1] /\ a[2] = b[2] /\ a[3] <= b[3]

\* The date string of the earliest grass row.
EarliestDate ==
  CHOOSE d \in Range(Series(GrassInput, "date")) :
    IsEarliestDay(<<ParseInt(SubSeq(d, 7, 10)), ParseInt(SubSeq(d, 4, 5)), ParseInt(SubSeq(d, 1, 2))>>)

\* The Mondays among the dates of GridRows.
Mondays == {"29/04/2024", "06/05/2024"}

\* C5: a batch whose earliest grass date, read day-first, is not a Monday is
\* rejected: an error that carries that date is shown and no grid is built, the
\* start is not moved to some Monday; a grid is built only when the earliest
\* grass date is a Monday, and then it starts on that date.
C5_MondayOnly ==
  (GridDone /\ GrassInput # <<>>) =>
    /\ EarliestDate \notin Mondays =>
         /\ out.grid = NoGrid
         /\ out.err = ""
         /\ Contains(out.message, EarliestDate)
    /\ out.grid # NoGrid =>
         /\ EarliestDate \in Mondays
         /\ out.message = ""
         /\ out.grid.week[1] = to_datetime(EarliestDate)

\* A batch whose earliest grass date is Tuesday 30/04/2024 and that has a row of
\* the next Monday has been rejected with that Tuesday in the message.
C5_Witness ==
  /\ GridDone
  /\ Range(Series(GrassInput, "date")) = {"30/04/2024", "06/05/2024"}
  /\ out.grid = NoGrid
  /\ Contains(out.message, "Tuesday 30/04/2024")

(***************************************************************************)
(* Properties of the Row Normalizer and of the filters.                    *)
(***************************************************************************)
NormDone == op = "normalized"

FilterDone == op = "filtered" /\ out.err = ""

\* C13 (as claimed): for either filter, an empty selection and a selection
\* containing "ALL" resolve to all the observed values, and the rows are then
\* not filtered along that dimension.
C13_NoSelectionIsAll ==
  FilterDone =>
    /\ (out.sel_dates = {} \/ "ALL" \in out.sel_dates) =>
         /\ out.dates = date_options(out.rows, variant)
         /\ out.filtered = SelectSeq(out.rows, LAMBDA r : r.location \in out.locations)
    /\ (out.sel_locs = {} \/ "ALL" \in out.sel_locs) =>
         /\ out.locations = location_options(out.rows)
         /\ out.filtered = SelectSeq(out.rows, LAMBDA r : DateKey(r, variant) \in out.dates)

C15_MalformedRowError ==
  (NormDone /\ \E i \in 1..Len(table) : ~IsNa(table[i][24]) /\ Find(table[i][24], " - ") = 0)
    => out.err = "MalformedRowError"

\* C16 (as claimed): a normalization that returns has as many rows as the raw
\* table, the i-th made of the cells of the i-th raw row.
C16_RowsPreserved ==
  (NormDone /\ out.err = "") =>
    /\ Len(out.rows) = Len(table)
    /\ \A i \in 1..Len(out.rows) : out.rows[i].sublocation = table[i][27]

\* Whether the batch is one the Monday check lets through.
MondayBatch == GridDone /\ GrassInput # <<>> /\ EarliestDate \in Mondays

GridBuilt == GridDone /\ out.grid # NoGrid

\* The rows of location loc in the batch, and those on the c-th day of the week
\* of the grid.
BatchRows(loc) == SelectSeq(GrassInput, LAMBDA r : r.location = loc)

DayRows(loc, c) ==
  SelectSeq(BatchRows(loc), LAMBDA r : to_datetime(r.date) = to_datetime(EarliestDate) + c - 1)

\* The start times (the time field up to " to ") of the rows of loc on day c.
DayStarts(loc, c) == {StartOf(DayRows(loc, c)[i].time) : i \in 1..Len(DayRows(loc, c))}

\* The row of the grid of display name name.
GridRowOf(name) == CHOOSE r \in 1..Len(out.grid.names) : out.grid.names[r] = name

C18_RowlessLocation ==
  (MondayBatch /\ variant \in {"p4", "p5"}) =>
    /\ out.err = ""
    /\ GridBuilt
    /\ \A i \in 1..Len(pitch_mappings) :
         BatchRows(pitch_mappings[i][1]) = <<>> =>
           \A c \in 1..7 : out.grid.cells[GridRowOf(pitch_mappings[i][3])][c] = ""

\* C19 (as claimed): in a grid that is built, the cell of an activity location
\* on a day on which it has rows carries the least of their start times.
C19_MinimumStart ==
  GridBuilt =>
    \A loc \in Range(ActivityLocations) : \A c \in 1..7 :
      DayStarts(loc, c) # {} =>
        out.grid.cells[GridRowOf(loc)][c] = "Activity starts " \o SortedStr(DayStarts(loc, c))[1]

\* C20 (as claimed): a batch that passes the Monday check is built without an
\* exception, and the cell of an activity location reads "Activity starts" and
\* a start time of that day when the location has a row on the day and is the
\* empty string when it has none, on any day or in the whole batch.
C20_ActivityCell ==
  MondayBatch =>
    /\ out.err = ""
    /\ GridBuilt
    /\ \A loc \in Range(ActivityLocations) : \A c \in 1..7 :
         IF DayStarts(loc, c) = {}
         THEN out.grid.cells[GridRowOf(loc)][c] = ""
         ELSE \E t \in DayStarts(loc, c) :
                out.grid.cells[GridRowOf(loc)][c] = "Activity starts " \o t

\* The rows of the batch behind the cell of the i-th pitch mapping on the date
\* day, and on the c-th day of the week of the grid, in the order of the
\* imported table.
RowsOfCell(i, day) ==
  SelectSeq(GrassInput, LAMBDA r : /\ r.location = pitch_mappings[i][1]
                                   /\ r.sublocation = pitch_mappings[i][2]
                                   /\ to_datetime(r.date) = day)

CellRows(i, c) == RowsOfCell(i, to_datetime(EarliestDate) + c - 1)

\* The entry of row r in a cell: its details, a line break and its time as
\* "HHMM-HHMM"; p1 and p4 have replaced missing details by '' before.
EntryOf(r) ==
  BookingLine(IF variant = "p5" THEN r ELSE FillRow(r, {"details"}), variant)

\* The cell of the i-th pitch mapping on day c, and the entries stacked in it.
MappedCell(i, c) == out.grid.cells[GridRowOf(pitch_mappings[i][3])][c]

CellEntries(i, c) ==
  IF MappedCell(i, c) = "" THEN <<>>
  ELSE LET lines == Split(MappedCell(i, c), "\n")
       IN  [k \in 1..(Len(lines) \div 2) |-> lines[2 * k - 1] \o "\n" \o lines[2 * k]]

\* The rows of a cell by ascending time string, rows of equal time in the order
\* of the imported table.
ByTime(rows) ==
  LET n == Len(rows)
      p == CHOOSE q \in [1..n -> 1..n] :
             /\ \A a, b \in 1..n : a # b => q[a] # q[b]
             /\ \A a, b \in 1..n :
                  a < b => \/ StrLess(rows[q[a]].time, rows[q[b]].time)
                           \/ rows[q[a]].time = rows[q[b]].time /\ q[a] < q[b]
  IN  [k \in 1..n |-> rows[p[k]]]

\* C21 (as claimed): the entries of a cell are those of its rows in the order
\* of the imported table.
C21_SourceOrder ==
  GridBuilt =>
    LET monday == to_datetime(EarliestDate)
    IN  \A i \in 1..Len(pitch_mappings) : \A c \in 1..7 :
          LET rows == RowsOfCell(i, monday + c - 1)
          IN  CellEntries(i, c) = [k \in 1..Len(rows) |-> EntryOf(rows[k])]

\* C21 (amended): the entries of a cell are those of its rows by ascending
\* time (the type and the booker being equal), rows of equal time in the order
\* of the imported table.
C21_TimeOrder ==
  GridBuilt =>
    LET monday == to_datetime(EarliestDate)
    IN  \A i \in 1..Len(pitch_mappings) : \A c \in 1..7 :
          LET rows == RowsOfCell(i, monday + c - 1)
              sorted == ByTime(rows)
          IN  (\A a, b \in 1..Len(rows) :
                 rows[a].type = rows[b].type /\ rows[a].booker = rows[b].booker)
                => CellEntries(i, c) = [k \in 1..Len(rows) |-> EntryOf(sorted[k])]

\* C21 witness: South S 1 was booked on the Monday at 14:00 and, later in the
\* table, at 09:00, and the cell of South 1 lists the 09:00 booking first.
C21_Witness ==
  /\ GridBuilt
  /\ Len(CellRows(6, 1)) = 2
  /\ CellRows(6, 1)[1].time = "14:00 to 15:00"
  /\ CellRows(6, 1)[2].time = "09:00 to 10:00"
  /\ CellEntries(6, 1) = <<EntryOf(CellRows(6, 1)[2]), EntryOf(CellRows(6, 1)[1])>>

\* The number of positions of the sequence q that hold e.
Occurrences(q, e) == Cardinality({k \in 1..Len(q) : q[k] = e})

\* Whether row r of the batch belongs to some cell of the grid.
InSomeCell(r) ==
  /\ \E i \in 1..Len(pitch_mappings) :
       r.location = pitch_mappings[i][1] /\ r.sublocation = pitch_mappings[i][2]
  /\ to_datetime(r.date) - to_datetime(EarliestDate) \in 0..6

\* The number of entries in all the cells of the mapped pitches.
RECURSIVE SumEntries(_)
SumEntries(S) ==
  IF S = {} THEN 0
  ELSE LET x == CHOOSE y \in S : TRUE
       IN  Len(CellEntries(x[1], x[2])) + SumEntries(S \ {x})

\* C27: in a grid that is built, the cell of a mapped pitch on a day holds the
\* entry of each row of that location, sublocation and date exactly once and
\* nothing else, so the cells together hold one entry for every row that is
\* mapped and within the week and none for any other row.
C27_OneEntryPerRow ==
  GridBuilt =>
    /\ LET monday == to_datetime(EarliestDate)
       IN  \A i \in 1..Len(pitch_mappings) : \A c \in 1..7 :
             LET rows == RowsOfCell(i, monday + c - 1)
                 entries == CellEntries(i, c)
             IN  /\ Len(entries) = Len(rows)
                 /\ \A k \in 1..Len(rows) :
                      Occurrences(entries, EntryOf(rows[k]))
                        = Cardinality({j \in 1..Len(rows) : EntryOf(rows[j]) = EntryOf(rows[k])})
    /\ SumEntries((1..Len(pitch_mappings)) \X (1..7))
         = Len(SelectSeq(GrassInput, InSomeCell))

\* C27 witness: a batch with a South S 1 booking on the Monday, a booking of the
\* unmapped South S 9 on the Tuesday and a booking on the Monday after was built
\* with a single entry, in the Monday cell of South 1.
C27_Witness ==
  /\ GridBuilt
  /\ Len(GrassInput) = 3
  /\ \E j \in 1..3 : GrassInput[j].sublocation = "S 9"
  /\ \E j \in 1..3 : GrassInput[j].date = "06/05/2024"
  /\ Len(CellEntries(6, 1)) = 1
  /\ SumEntries((1..Len(pitch_mappings)) \X (1..7)) = 1

====
